---- MODULE Spec2Model ----
(***************************************************************************)
(* Slot classification of react-slots: the render pass of the component    *)
(* produced by createComponentWithSlots, in its legacy three-argument form *)
(* (src/src/withSlots.tsx) and its builder form (src/unnamed/part_000).    *)
(*                                                                         *)
(* JavaScript values are records tagged by "kind".  An object is a         *)
(* function from property names to values; Object.keys lists its domain in *)
(* insertion order, which KeyOrder fixes.  A flag that is absent from a    *)
(* configuration object is undefined, hence falsy, and is written FALSE.   *)
(***************************************************************************)
EXTENDS Integers, Sequences, FiniteSets, TLC

\* Longest list of children handed to one render pass.
MaxChildren == 3

\* ------------------------------------------------------------ JS values

Undefined == "<undefined>"

NullV == [kind |-> "null"]

UndefinedV == [kind |-> "undefined"]

\* A React element: `key` tells apart two elements of one type.
Element(key, type) == [kind |-> "element", key |-> key, type |-> type]

\* A child that is not an element (a string, a number, null, a boolean).
TextNode(key) == [kind |-> "text", key |-> key]

\* <>{content}</>
Fragment(content) == [kind |-> "fragment", content |-> content]

ArrayV(items) == [kind |-> "array", items |-> items]

\* JS truthiness of a ReactNode given as default content.
Truthy(content) == content \notin {Undefined, ""}

isValidElement(child) == child.kind = "element"

\* Property names in insertion order; "Extra" names no slot.
KeyOrder == <<"Header", "Footer", "Extra">>

ObjectKeys(obj) == SelectSeq(KeyOrder, LAMBDA k : k \in DOMAIN obj)

\* obj[k], undefined for a property the object does not have.
GetProp(obj, k) == IF k \in DOMAIN obj THEN obj[k] ELSE UndefinedV

EmptyObject == <<>>

\* The {} the legacy factory falls back to.
EmptyConfig == [isRequired |-> FALSE, multiple |-> FALSE, defaultContent |-> Undefined]

\* ------------------------------------------------------------ state

VARIABLES
    variant,              \* "legacy" or "builder": which factory made the component
    slots,                \* legacy: slot name -> slot component
    slotConfig,           \* legacy: name -> SlotConfig (optional per slot)
    slotsConfig,          \* builder: slot name -> SlotConfig with component?
    slotComponents,       \* builder: slot name -> slot component (given or generated)
    nodeEnv,              \* process.env.NODE_ENV during the pass
    children,             \* the children prop of the pass, flattened in order
    pc,                   \* position of the render pass
    slotElements,         \* per-render slot storage
    nonSlotChildren,      \* per-render leftovers
    missingRequiredSlots, \* result of the required-slot filter
    events,               \* console.warn / console.error / render calls, in order
    renderProps,          \* what the render function was called with
    returned,             \* what Component returned
    props,                \* the props of the pass other than children
    statics,              \* the static properties attached to Component
    slotConfigKeys,       \* legacy: Object.keys(slotConfig), in insertion order
    prev                  \* the pass before this one: its input and its outcome

vars == <<variant, slots, slotConfig, slotsConfig, slotComponents, nodeEnv, children,
          pc, slotElements, nonSlotChildren, missingRequiredSlots, events,
          renderProps, returned, props, statics, slotConfigKeys, prev>>

registryVars ==
    <<variant, slots, slotConfig, slotsConfig, slotComponents, statics, slotConfigKeys>>

\* ------------------------------------------------------------ inputs

SlotNames == {"Header", "Footer"}

DefaultContents == {Undefined, "", "(c) 2025"}

\* The legacy (slots, slotConfig) pairs under check.
LegacySlotsChoices ==
    { [Header |-> "HeaderFn", Footer |-> "FooterFn"],
      [Header |-> "HeaderFn", Footer |-> "HeaderFn"] }

LegacyConfigs ==
    [isRequired : BOOLEAN, multiple : BOOLEAN, defaultContent : DefaultContents]

FooterConfigs ==
    [isRequired : BOOLEAN, multiple : BOOLEAN, defaultContent : {Undefined, "(c) 2025"}]

ExtraConfigs ==
    [isRequired : {TRUE}, multiple : BOOLEAN, defaultContent : {Undefined}]

LegacyConfigChoices ==
    { f \in UNION { [K -> LegacyConfigs] : K \in SUBSET {"Header", "Footer", "Extra"} } :
        /\ "Footer" \in DOMAIN f
        /\ f["Footer"] \in FooterConfigs
        /\ "Extra" \in DOMAIN f => f["Extra"] \in ExtraConfigs }

BuilderComponentChoices ==
    { [Header |-> Undefined, Footer |-> Undefined],
      [Header |-> "HeaderFn", Footer |-> "FooterFn"],
      [Header |-> "HeaderFn", Footer |-> "HeaderFn"] }

BuilderConfigChoices ==
    { [k \in SlotNames |->
          [component |-> c[k], isRequired |-> f[k].isRequired,
           multiple |-> f[k].multiple, defaultContent |-> f[k].defaultContent]] :
        c \in BuilderComponentChoices,
        f \in { g \in [SlotNames -> LegacyConfigs] : g["Footer"] \in FooterConfigs } }

\* The generated default wrapper of a slot: one fresh function per slot name.
DefaultWrapper(slotKey) ==
    IF slotKey = "Header" THEN "HeaderWrapper" ELSE "FooterWrapper"

\* ------------------------------------------------------------ factories

\* STEP 1 of the builder: config.component || default wrapper.
BuilderSlotComponents(cfg) ==
    [slotKey \in DOMAIN cfg |->
        IF cfg[slotKey].component # Undefined
        THEN cfg[slotKey].component
        ELSE DefaultWrapper(slotKey)]

\* The slot components of the component under check, whichever factory made it.
Components == IF variant = "legacy" THEN slots ELSE slotComponents

\* Types a child element can have: every slot component, and a plain "div".
ChildTypes == {Components[k] : k \in DOMAIN Components} \cup {"div"}

ChildAt(i, t) == IF t = "text" THEN TextNode(i) ELSE Element(i, t)

ChildLists ==
    UNION { { [i \in 1..n |-> ChildAt(i, ts[i])] :
                ts \in [1..n -> ChildTypes \cup {"text"}] } : n \in 0..MaxChildren }

\* ------------------------------------------------------------ classification

WarnEvent(slotName) == [level |-> "warn", slot |-> slotName, missing |-> <<>>]

ErrorEvent(missing) == [level |-> "error", slot |-> "", missing |-> missing]

RenderEvent == [level |-> "render", slot |-> "", missing |-> <<>>]

\* Mutant of FindSlotEntry: the last entry with the component wins.
FindSlotEntryLast(components, type) ==
    LET hits == SelectSeq(ObjectKeys(components), LAMBDA k : components[k] = type)
    IN IF hits = <<>> THEN Undefined ELSE hits[Len(hits)]

\* Object.entries(components).find(([_, c]) => c === type): the name of the
\* first entry, in key order, whose component is `type`; Undefined if none.
FindSlotEntry(components, type) ==
    LET hits == SelectSeq(ObjectKeys(components), LAMBDA k : components[k] = type)
    IN IF hits = <<>> THEN Undefined ELSE Head(hits)

\* Mutant of Push: unshift, the list comes out reversed.
PushFront(array, child) == ArrayV(<<child>> \o array.items)

\* (slotElements[slotName] as ReactElement[]).push(child)
Push(array, child) == ArrayV(Append(array.items, child))

\* slotConfig[slotKey] || {}
LegacyConfigOf(slotKey) ==
    IF slotKey \in DOMAIN slotConfig THEN slotConfig[slotKey] ELSE EmptyConfig

\* Mutant of InitialSlotValue: the default content is forgotten.
InitialSlotValueNoDefault(config) ==
    IF config.multiple THEN ArrayV(<<>>) ELSE NullV

\* Initial value of one slot (both factories).
InitialSlotValue(config) ==
    IF config.multiple
    THEN ArrayV(<<>>)
    ELSE IF Truthy(config.defaultContent)
         THEN Fragment(config.defaultContent)
         ELSE NullV

LegacyInitialSlots == [slotKey \in DOMAIN slots |-> InitialSlotValue(LegacyConfigOf(slotKey))]

BuilderInitialSlots == [slotKey \in DOMAIN slotsConfig |-> InitialSlotValue(slotsConfig[slotKey])]

\* The guard of console.warn in the legacy factory.
LegacyWarns(current) == nodeEnv # "production" /\ current # NullV

\* Mutant of BuilderWarns: the guard of the legacy factory.
BuilderWarnsLikeLegacy(current, config) ==
    nodeEnv # "production" /\ current # NullV

\* The guard of console.warn in the builder factory.
BuilderWarns(current, config) ==
    /\ nodeEnv # "production"
    /\ current # NullV
    /\ ~Truthy(config.defaultContent)

\* Mutant of StoreSingle: the first child is kept instead of the last.
StoreSingleKeepFirst(acc, slotName, child, warns) ==
    [acc EXCEPT !.events = IF warns THEN Append(@, WarnEvent(slotName)) ELSE @,
                !.slotElements[slotName] = IF @.kind = "element" THEN @ ELSE child]

\* The single-slot branch: warn if the guard holds, then overwrite.
StoreSingle(acc, slotName, child, warns) ==
    [acc EXCEPT !.events = IF warns THEN Append(@, WarnEvent(slotName)) ELSE @,
                !.slotElements[slotName] = child]

\* Mutant of StoreMultiple: the child falls through to the leftovers as well.
StoreMultipleAndRest(acc, slotName, child) ==
    [acc EXCEPT !.slotElements[slotName] = ArrayV(Append(@.items, child)),
                !.nonSlotChildren = Append(@, child)]

\* The multiple-slot branch.
StoreMultiple(acc, slotName, child) ==
    [acc EXCEPT !.slotElements[slotName] = Push(@, child)]

\* Mutant of StoreNonSlot: unshift, the leftovers come out reversed.
StoreNonSlotFront(acc, child) ==
    [acc EXCEPT !.nonSlotChildren = <<child>> \o @]

\* The else branch: the child matches no slot.
StoreNonSlot(acc, child) ==
    [acc EXCEPT !.nonSlotChildren = Append(@, child)]

\* The Children.forEach callback of the legacy factory.
LegacyOnChild(acc, child) ==
    IF ~isValidElement(child)
    THEN acc
    ELSE LET slotEntry == FindSlotEntry(slots, child.type) IN
         IF slotEntry # Undefined
         THEN LET config == LegacyConfigOf(slotEntry) IN
              IF config.multiple
              THEN StoreMultiple(acc, slotEntry, child)
              ELSE StoreSingle(acc, slotEntry, child,
                               LegacyWarns(acc.slotElements[slotEntry]))
         ELSE StoreNonSlot(acc, child)

\* The Children.forEach callback of the builder factory.
BuilderOnChild(acc, child) ==
    IF ~isValidElement(child)
    THEN acc
    ELSE LET slotEntry == FindSlotEntry(slotComponents, child.type) IN
         IF slotEntry # Undefined
         THEN LET config == slotsConfig[slotEntry] IN
              IF config.multiple
              THEN StoreMultiple(acc, slotEntry, child)
              ELSE StoreSingle(acc, slotEntry, child,
                               BuilderWarns(acc.slotElements[slotEntry], config))
         ELSE StoreNonSlot(acc, child)

OnChild(acc, child) ==
    IF variant = "legacy" THEN LegacyOnChild(acc, child) ELSE BuilderOnChild(acc, child)

\* Children.forEach(children, callback): the callback on each child, in order.
RECURSIVE ChildrenForEach(_, _)
ChildrenForEach(acc, cs) ==
    IF cs = <<>> THEN acc ELSE ChildrenForEach(OnChild(acc, Head(cs)), Tail(cs))

\* ------------------------------------------------------------ validation

\* The legacy filter reads .length of slotElements[key], which is undefined for
\* a key of slotConfig that is no key of slots: a TypeError.
LegacyFilterThrows(key) ==
    /\ slotConfig[key].isRequired
    /\ slotConfig[key].multiple
    /\ GetProp(slotElements, key) = UndefinedV

LegacyIsMissing(key) ==
    LET config == slotConfig[key]
        slotContent == GetProp(slotElements, key)
    IN IF ~config.isRequired THEN FALSE
       ELSE IF config.multiple THEN Len(slotContent.items) = 0
       ELSE slotContent = NullV

LegacyMissingRequiredSlots == SelectSeq(slotConfigKeys, LegacyIsMissing)

BuilderIsMissing(key) ==
    LET config == slotsConfig[key]
        slotContent == slotElements[key]
    IN IF ~config.isRequired THEN FALSE
       ELSE IF config.multiple THEN Len(slotContent.items) = 0
       ELSE slotContent = NullV

BuilderMissingRequiredSlots == SelectSeq(ObjectKeys(slotsConfig), BuilderIsMissing)

ValidationThrows ==
    /\ variant = "legacy"
    /\ \E key \in DOMAIN slotConfig : LegacyFilterThrows(key)

MissingRequiredSlots ==
    IF variant = "legacy" THEN LegacyMissingRequiredSlots ELSE BuilderMissingRequiredSlots

\* Mutant of ReportsMissing: the NODE_ENV test is left out.
ReportsMissingAlways(missing) == Len(missing) > 0

\* The guard of console.error.
ReportsMissing(missing) == Len(missing) > 0 /\ nodeEnv # "production"

\* ------------------------------------------------------------ render input

\* Mutant of TypeSafeSlots: only the filled slots are copied.
TypeSafeSlotsFilledOnly ==
    [key \in {k \in DOMAIN slotElements : slotElements[k] # NullV} |-> slotElements[key]]

\* typeSafeSlots: slotElements copied key by key over the declared slots.
TypeSafeSlots ==
    IF variant = "legacy"
    THEN [key \in DOMAIN slots |-> slotElements[key]]
    ELSE [key \in DOMAIN slotsConfig |-> slotElements[key]]

\* Mutant of RenderProps: the caller's props are not spread into the input.
RenderPropsWithoutProps ==
    [slots |-> TypeSafeSlots, nonSlotChildren |-> nonSlotChildren]

\* { ...props, slots: typeSafeSlots, nonSlotChildren }: later keys win.
RenderProps ==
    [k \in DOMAIN props \cup {"slots", "nonSlotChildren"} |->
        IF k = "slots" THEN TypeSafeSlots
        ELSE IF k = "nonSlotChildren" THEN nonSlotChildren
        ELSE props[k]]

\* The caller's render function: an element determined by its input.
RenderFn(input) == [kind |-> "element", key |-> 0, type |-> "rendered", props |-> input]

\* ------------------------------------------------------------ props and statics

StringV(text) == [kind |-> "string", value |-> text]

\* The props a parent passes besides children.
DefaultProps == [className |-> StringV("card")]

\* <Component {...ps}>{cs}</Component>: the props object Component is called with.
CallProps(ps, cs) ==
    [k \in DOMAIN ps \cup {"children"} |-> IF k = "children" THEN ArrayV(cs) ELSE ps[k]]

\* ({ children, ...props }): the children, as Children.forEach walks them.
ChildrenOf(callProps) == callProps["children"].items

\* ({ children, ...props }): every property but children.
RestProps(callProps) == [k \in DOMAIN callProps \ {"children"} |-> callProps[k]]

\* Object.entries(slots).forEach(([key, slot]) => Component[key] = slot), of
\* the factory in use.
StaticSlotProperties ==
    IF variant = "legacy"
    THEN [key \in DOMAIN slots |-> slots[key]]
    ELSE [key \in DOMAIN slotComponents |-> slotComponents[key]]

\* Mutant of FreshSlotElements: the storage lives outside Component and is
\* initialised once, so a later pass starts from what the pass before left.
StaleSlotElements ==
    IF pc = "idle"
    THEN (IF variant = "legacy" THEN LegacyInitialSlots ELSE BuilderInitialSlots)
    ELSE slotElements

\* const slotElements = {} and its initialisation, on every call of Component.
FreshSlotElements ==
    IF variant = "legacy" THEN LegacyInitialSlots ELSE BuilderInitialSlots

\* ------------------------------------------------------------ actions

\* The component as constructed, but for the key order of the legacy slotConfig.
InitComponent ==
    /\ variant \in {"legacy", "builder"}
    /\ IF variant = "legacy"
       THEN /\ slots \in LegacySlotsChoices
            /\ slotConfig \in LegacyConfigChoices
            /\ slotsConfig = EmptyObject
            /\ slotComponents = EmptyObject
       ELSE /\ slots = EmptyObject
            /\ slotConfig = EmptyObject
            /\ slotsConfig \in BuilderConfigChoices
            /\ slotComponents = BuilderSlotComponents(slotsConfig)
    /\ nodeEnv = "development"
    /\ children = <<>>
    /\ pc = "idle"
    /\ slotElements = EmptyObject
    /\ nonSlotChildren = <<>>
    /\ missingRequiredSlots = <<>>
    /\ events = <<>>
    /\ renderProps = UndefinedV
    /\ returned = UndefinedV
    /\ props = EmptyObject
    /\ statics = StaticSlotProperties
    /\ prev = UndefinedV

\* slotConfig written with its keys in the order of KeyOrder.
Init ==
    /\ InitComponent
    /\ slotConfigKeys = ObjectKeys(slotConfig)

\* The body of Component up to Children.forEach, called with `callProps` while
\* NODE_ENV is `env`: ({ children, ...props }), fresh storage, every slot
\* initialised.
BeginPass(callProps, env) ==
    /\ children' = ChildrenOf(callProps)
    /\ props' = RestProps(callProps)
    /\ nodeEnv' = env
    /\ slotElements' = FreshSlotElements
    /\ nonSlotChildren' = <<>>
    /\ missingRequiredSlots' = <<>>
    /\ events' = <<>>
    /\ renderProps' = UndefinedV
    /\ returned' = UndefinedV
    /\ pc' = "classify"
    /\ UNCHANGED registryVars

\* The first render pass of the component.
StartRender(callProps, env) ==
    /\ pc = "idle"
    /\ BeginPass(callProps, env)
    /\ UNCHANGED prev

\* What a finished pass leaves to compare a later pass with.
PassRecord ==
    [kind |-> "pass", children |-> children, props |-> props, nodeEnv |-> nodeEnv,
     pc |-> pc, renderProps |-> renderProps, events |-> events, returned |-> returned,
     registry |-> registryVars]

\* A later render pass of the same component, after one that returned or threw.
Rerender(callProps, env) ==
    /\ pc \in {"done", "threw"}
    /\ prev' = PassRecord
    /\ BeginPass(callProps, env)

\* Children.forEach(children, ...).
Classify ==
    /\ pc = "classify"
    /\ LET acc == ChildrenForEach([slotElements |-> slotElements,
                                   nonSlotChildren |-> nonSlotChildren,
                                   events |-> events], children)
       IN /\ slotElements' = acc.slotElements
          /\ nonSlotChildren' = acc.nonSlotChildren
          /\ events' = acc.events
    /\ pc' = "validate"
    /\ UNCHANGED <<registryVars, nodeEnv, children, missingRequiredSlots,
                   renderProps, returned, props, prev>>

\* The required-slot filter ends normally, and console.error if it found any.
Validate ==
    /\ pc = "validate"
    /\ ~ValidationThrows
    /\ missingRequiredSlots' = MissingRequiredSlots
    /\ events' = IF ReportsMissing(MissingRequiredSlots)
                 THEN Append(events, ErrorEvent(MissingRequiredSlots))
                 ELSE events
    /\ pc' = "render"
    /\ UNCHANGED <<registryVars, nodeEnv, children, slotElements, nonSlotChildren,
                   renderProps, returned, props, prev>>

\* The required-slot filter raises a TypeError, which leaves Component.
ValidateThrows ==
    /\ pc = "validate"
    /\ ValidationThrows
    /\ pc' = "threw"
    /\ UNCHANGED <<registryVars, nodeEnv, children, slotElements, nonSlotChildren,
                   missingRequiredSlots, events, renderProps, returned, props, prev>>

\* typeSafeSlots, renderProps, and return <>{render(renderProps)}</>.
Render ==
    /\ pc = "render"
    /\ renderProps' = RenderProps
    /\ events' = Append(events, RenderEvent)
    /\ returned' = Fragment(RenderFn(RenderProps))
    /\ pc' = "done"
    /\ UNCHANGED <<registryVars, nodeEnv, children, slotElements, nonSlotChildren,
                   missingRequiredSlots, props, prev>>

Next ==
    \/ /\ pc = "idle"
       /\ \E cs \in ChildLists, env \in {"development", "production"} :
              StartRender(CallProps(DefaultProps, cs), env)
    \/ Classify
    \/ Validate
    \/ ValidateThrows
    \/ Render

Spec == Init /\ [][Next]_vars

\* ------------------------------------------------------------ passes with other props

\* A few registries of each factory: a required, a multiple and a defaulted
\* Header beside a plain Footer, and a legacy slotConfig with an entry for a
\* name that is no slot.
SmallHeaderConfigs ==
    { [isRequired |-> TRUE, multiple |-> FALSE, defaultContent |-> Undefined],
      [isRequired |-> TRUE, multiple |-> TRUE, defaultContent |-> Undefined],
      [isRequired |-> FALSE, multiple |-> FALSE, defaultContent |-> "(c) 2025"] }

SmallRegistry ==
    IF variant = "legacy"
    THEN /\ slots = [Header |-> "HeaderFn", Footer |-> "FooterFn"]
         /\ "Header" \in DOMAIN slotConfig
         /\ slotConfig["Header"] \in SmallHeaderConfigs
         /\ slotConfig["Footer"] = EmptyConfig
         /\ "Extra" \in DOMAIN slotConfig => slotConfig["Extra"].multiple
    ELSE /\ slotsConfig["Header"].component = "HeaderFn"
         /\ slotsConfig["Footer"].component = "FooterFn"
         /\ \E c \in SmallHeaderConfigs :
               /\ slotsConfig["Header"].isRequired = c.isRequired
               /\ slotsConfig["Header"].multiple = c.multiple
               /\ slotsConfig["Header"].defaultContent = c.defaultContent
         /\ ~slotsConfig["Footer"].isRequired
         /\ ~slotsConfig["Footer"].multiple
         /\ slotsConfig["Footer"].defaultContent = Undefined

\* Values a parent may pass under each prop name.
PropValues ==
    [className |-> StringV("card"),
     slots |-> [kind |-> "object"],
     nonSlotChildren |-> <<StringV("mine")>>]

PropsChoices ==
    { [k \in K |-> PropValues[k]] : K \in SUBSET {"className", "slots", "nonSlotChildren"} }

InitProps == Init /\ SmallRegistry

NextProps ==
    \/ /\ pc = "idle"
       /\ \E ps \in PropsChoices, cs \in ChildLists, env \in {"development", "production"} :
              StartRender(CallProps(ps, cs), env)
    \/ Classify
    \/ Validate
    \/ ValidateThrows
    \/ Render

SpecProps == InitProps /\ [][NextProps]_vars

\* ------------------------------------------------------------ repeated passes

\* Children of the repeated passes: Header elements and plain elements.
PassChildLists ==
    UNION { { [i \in 1..n |-> Element(i, ts[i])] :
                ts \in [1..n -> {Components["Header"], "div"}] } : n \in 0..MaxChildren }

InitRerender == Init /\ SmallRegistry

NextRerender ==
    \/ /\ pc = "idle"
       /\ \E cs \in PassChildLists, env \in {"development", "production"} :
              StartRender(CallProps(DefaultProps, cs), env)
    \/ /\ pc \in {"done", "threw"}
       /\ \E cs \in PassChildLists, env \in {"development", "production"} :
              Rerender(CallProps(DefaultProps, cs), env)
    \/ Classify
    \/ Validate
    \/ ValidateThrows
    \/ Render

SpecRerender == InitRerender /\ [][NextRerender]_vars

\* ------------------------------------------------------------ one registry, both factories

Reverse(seq) == [i \in 1..Len(seq) |-> seq[Len(seq) + 1 - i]]

\* The registry of a legacy component as the builder factory takes it.
BuilderRegistryOf(legacySlots, legacyConfig) ==
    [k \in DOMAIN legacySlots |->
        LET config == IF k \in DOMAIN legacyConfig THEN legacyConfig[k] ELSE EmptyConfig
        IN [component |-> legacySlots[k], isRequired |-> config.isRequired,
            multiple |-> config.multiple, defaultContent |-> config.defaultContent]]

\* Legacy components, slotConfig written in either key order; an entry for a
\* name that is no slot only in the few registries of SmallRegistry.
InitTwin ==
    /\ InitComponent
    /\ variant = "legacy"
    /\ "Extra" \in DOMAIN slotConfig => SmallRegistry
    /\ slotConfigKeys \in
          IF "Extra" \in DOMAIN slotConfig
          THEN {ObjectKeys(slotConfig)}
          ELSE {ObjectKeys(slotConfig), Reverse(ObjectKeys(slotConfig))}

\* The registry of the legacy component is handed to the builder factory; the
\* component it makes is then rendered with the children, props and NODE_ENV
\* of the legacy pass.
BuildTwin ==
    /\ pc = "done"
    /\ variant = "legacy"
    /\ DOMAIN slotConfig \subseteq DOMAIN slots
    /\ prev' = PassRecord
    /\ variant' = "builder"
    /\ slotsConfig' = BuilderRegistryOf(slots, slotConfig)
    /\ slotComponents' = BuilderSlotComponents(BuilderRegistryOf(slots, slotConfig))
    /\ statics' = BuilderSlotComponents(BuilderRegistryOf(slots, slotConfig))
    /\ slots' = EmptyObject
    /\ slotConfig' = EmptyObject
    /\ slotConfigKeys' = <<>>
    /\ pc' = "idle"
    /\ UNCHANGED <<nodeEnv, children, slotElements, nonSlotChildren,
                   missingRequiredSlots, events, renderProps, returned, props>>

NextTwin ==
    \/ /\ pc = "idle"
       /\ \E cs \in ChildLists, env \in {"development", "production"} :
              /\ prev.kind = "pass" => (cs = prev.children /\ env = prev.nodeEnv)
              /\ StartRender(CallProps(DefaultProps, cs), env)
    \/ BuildTwin
    \/ Classify
    \/ Validate
    \/ ValidateThrows
    \/ Render

SpecTwin == InitTwin /\ [][NextTwin]_vars

\* ------------------------------------------------------------ vocabulary of the claims

\* The declared slot names of the component.
DeclaredSlots == IF variant = "legacy" THEN DOMAIN slots ELSE DOMAIN slotsConfig

\* The configuration in force for a declared slot.
ConfigFor(s) ==
    IF variant = "legacy"
    THEN (IF s \in DOMAIN slotConfig THEN slotConfig[s] ELSE EmptyConfig)
    ELSE slotsConfig[s]

\* The identity token of a declared slot.
TokenOf(s) == IF variant = "legacy" THEN slots[s] ELSE slotComponents[s]

KeyIndex(k) == CHOOSE i \in 1..Len(KeyOrder) : KeyOrder[i] = k

\* A child slot s receives: an element whose type is the token of s, s being
\* the first declared slot with that token.
ReceivedBy(s, c) ==
    /\ c.kind = "element"
    /\ TokenOf(s) = c.type
    /\ \A k \in DeclaredSlots : TokenOf(k) = c.type => KeyIndex(s) <= KeyIndex(k)

Received(s) == SelectSeq(children, LAMBDA c : ReceivedBy(s, c))

\* An element child whose type is no declared slot's token.
Unmatched(c) ==
    /\ c.kind = "element"
    /\ \A k \in DeclaredSlots : TokenOf(k) # c.type

Last(seq) == seq[Len(seq)]

\* Where a value occurs in a render input: <<"rest", i>>, <<slot, 0>> as the
\* slot's single value, <<slot, i>> in the slot's list.
PlacesOf(c, rp) ==
    { <<"rest", i>> : i \in { j \in 1..Len(rp.nonSlotChildren) : rp.nonSlotChildren[j] = c } }
    \cup { <<k, 0>> : k \in { j \in DOMAIN rp.slots : rp.slots[j] = c } }
    \cup UNION { { <<k, i>> : i \in { j \in 1..(IF rp.slots[k].kind = "array"
                                                 THEN Len(rp.slots[k].items) ELSE 0) :
                                      rp.slots[k].items[j] = c } } : k \in DOMAIN rp.slots }

WarnedSlots == { events[i].slot : i \in { j \in 1..Len(events) : events[j].level = "warn" } }

ErrorEvents == SelectSeq(events, LAMBDA e : e.level = "error")

RenderEvents == SelectSeq(events, LAMBDA e : e.level = "render")

Range(seq) == { seq[i] : i \in 1..Len(seq) }

\* ------------------------------------------------------------ claims

\* C1: the slots object handed to the render function has an entry for every
\* declared slot name, in both factories, matched or not: null, a list, the
\* default content, or a child.
C1_EverySlotHasEntry ==
    pc = "done" =>
        /\ DOMAIN renderProps.slots = DeclaredSlots
        /\ \A s \in DeclaredSlots :
              renderProps.slots[s].kind \in {"null", "array", "fragment", "element"}

C1_Witness ==
    /\ pc = "done"
    /\ variant = "legacy"
    /\ "Header" \notin DOMAIN slotConfig
    /\ Len(children) = 2
    /\ Received("Header") = <<>>
    /\ renderProps.slots["Header"] = NullV

\* C2: nonSlotChildren is exactly the subsequence of the children that are
\* elements whose type is no declared slot's token, in their original order.
C2_LeftoversAreUnmatchedSubsequence ==
    pc = "done" =>
        renderProps.nonSlotChildren = SelectSeq(children, Unmatched)

C2_Witness ==
    /\ pc = "done"
    /\ Len(children) = 3
    /\ Unmatched(children[1])
    /\ ReceivedBy("Header", children[2])
    /\ Unmatched(children[3])
    /\ Len(renderProps.nonSlotChildren) = 2

\* C3: a singular slot that receives at least one child holds the last of them,
\* whatever its default content; the earlier ones occur nowhere in the input.
C3_SingularSlotHoldsLast ==
    pc = "done" =>
        \A s \in DeclaredSlots :
            (~ConfigFor(s).multiple /\ Received(s) # <<>>) =>
                /\ renderProps.slots[s] = Last(Received(s))
                /\ \A i \in 1..(Len(Received(s)) - 1) :
                      PlacesOf(Received(s)[i], renderProps) = {}

C3_Witness ==
    /\ pc = "done"
    /\ ~ConfigFor("Header").multiple
    /\ Truthy(ConfigFor("Header").defaultContent)
    /\ Len(children) = 3
    /\ ReceivedBy("Header", children[1])
    /\ Unmatched(children[2])
    /\ ReceivedBy("Header", children[3])
    /\ renderProps.slots["Header"] = children[3]

\* C4: a multiple slot holds the list of exactly the children it received, each
\* once, in their original order; the empty list if it received none.
C4_MultipleSlotHoldsAllInOrder ==
    pc = "done" =>
        \A s \in DeclaredSlots :
            ConfigFor(s).multiple => renderProps.slots[s] = ArrayV(Received(s))

C4_Witness ==
    /\ pc = "done"
    /\ ConfigFor("Header").multiple
    /\ Len(children) = 3
    /\ ReceivedBy("Header", children[1])
    /\ ~ReceivedBy("Header", children[2])
    /\ ReceivedBy("Header", children[3])
    /\ Len(renderProps.slots["Header"].items) = 2

\* C9: classification partitions the children: an element child occurs in at
\* most one place, in nonSlotChildren exactly if it matches no slot and else
\* only in the slot that receives it; a child that is no element occurs nowhere.
C9_ClassificationPartitions ==
    pc = "done" =>
        \A i \in 1..Len(children) :
            LET c == children[i]
                places == PlacesOf(c, renderProps)
            IN IF c.kind # "element"
               THEN places = {}
               ELSE /\ Cardinality(places) <= 1
                    /\ Unmatched(c) <=> (\E p \in places : p[1] = "rest")
                    /\ Unmatched(c) => Cardinality(places) = 1
                    /\ \A p \in places :
                          p[1] # "rest" => (p[1] \in DeclaredSlots /\ ReceivedBy(p[1], c))

C9_Witness ==
    /\ pc = "done"
    /\ Len(children) = 3
    /\ children[1].kind = "text"
    /\ ReceivedBy("Footer", children[2])
    /\ Unmatched(children[3])
    /\ PlacesOf(children[2], renderProps) = {<<"Footer", 0>>}
    /\ PlacesOf(children[3], renderProps) = {<<"rest", 1>>}

\* What React renders of a returned value: a fragment renders as its content.
RenderedOutput(v) == IF v.kind = "fragment" THEN v.content ELSE v

\* The required slots that are empty after classification.
EmptyRequiredSlots ==
    { s \in DeclaredSlots :
        /\ ConfigFor(s).isRequired
        /\ slotElements[s] \in {NullV, ArrayV(<<>>)} }

\* The slots named by the missing-required-slots diagnostics of the pass.
ReportedMissing == UNION { Range(ErrorEvents[i].missing) : i \in 1..Len(ErrorEvents) }

C6_Original ==
    (nodeEnv = "development" /\ pc \notin {"idle", "classify"}) =>
        \A s \in DeclaredSlots :
            ~ConfigFor(s).multiple =>
                (s \in WarnedSlots <=>
                    (Len(Received(s)) >= 2 /\ ~Truthy(ConfigFor(s).defaultContent)))

\* C7, as stated: in development mode every pass ends normally with the render
\* function invoked; if some required slot is empty exactly one error diagnostic
\* was emitted and names exactly the empty required slots, which are null or
\* empty in the render input; if none is empty no error diagnostic was emitted.
C7_Original ==
    (nodeEnv = "development" /\ pc \in {"done", "threw"}) =>
        /\ pc = "done"
        /\ Len(RenderEvents) = 1
        /\ IF EmptyRequiredSlots # {}
           THEN /\ Len(ErrorEvents) = 1
                /\ Range(ErrorEvents[1].missing) = EmptyRequiredSlots
                /\ Len(ErrorEvents[1].missing) = Cardinality(EmptyRequiredSlots)
           ELSE ErrorEvents = <<>>
        /\ \A s \in EmptyRequiredSlots :
              renderProps.slots[s] \in {NullV, ArrayV(<<>>)}

\* C8, as stated: no render pass raises an exception, whatever the registry, the
\* configuration mapping and the children.
C8_Original == pc # "threw"

\* C10, as stated: every pass invokes the render function exactly once, after
\* classification, validation and their diagnostics, and what the component
\* renders is the render function's return value.
C10_Original ==
    pc \in {"done", "threw"} =>
        /\ Len(RenderEvents) = 1
        /\ Last(events) = RenderEvent
        /\ RenderedOutput(returned) = RenderFn(renderProps)

\* The classified mapping: the slot storage over the declared slots.
ClassifiedSlots == [s \in DeclaredSlots |-> slotElements[s]]

\* C11, as stated: the render input carries every prop passed other than
\* children with the value the caller passed, also one named slots or
\* nonSlotChildren, plus slots (the classified mapping) and nonSlotChildren (the
\* leftover list), and no children.
C11_Original ==
    pc = "done" =>
        /\ DOMAIN renderProps = DOMAIN props \cup {"slots", "nonSlotChildren"}
        /\ "children" \notin DOMAIN renderProps
        /\ \A k \in DOMAIN props : renderProps[k] = props[k]
        /\ renderProps["slots"] = ClassifiedSlots
        /\ renderProps["nonSlotChildren"] = nonSlotChildren

\* C11, amended: the render input carries every prop passed other than children,
\* slots and nonSlotChildren with the value the caller passed; its slots is the
\* classified mapping and its nonSlotChildren the leftover list, which replace a
\* caller's prop of those names; it has no children.
C11_PropsPassThroughExceptOverridden ==
    pc = "done" =>
        /\ DOMAIN renderProps = DOMAIN props \cup {"slots", "nonSlotChildren"}
        /\ "children" \notin DOMAIN renderProps
        /\ \A k \in DOMAIN props \ {"slots", "nonSlotChildren"} : renderProps[k] = props[k]
        /\ renderProps["slots"] = ClassifiedSlots
        /\ renderProps["nonSlotChildren"] = nonSlotChildren

C11_Witness ==
    /\ pc = "done"
    /\ DOMAIN props = {"className", "slots", "nonSlotChildren"}
    /\ Len(children) = 2
    /\ renderProps["className"] = StringV("card")
    /\ renderProps["slots"] # props["slots"]
    /\ renderProps["nonSlotChildren"] # props["nonSlotChildren"]
    /\ Len(renderProps["nonSlotChildren"]) = 1

\* The identity token slot N is declared with: the supplied component, or in
\* the builder factory the generated wrapper when none is supplied.
DeclaredToken(N) ==
    IF variant = "legacy"
    THEN slots[N]
    ELSE IF slotsConfig[N].component # Undefined
         THEN slotsConfig[N].component
         ELSE DefaultWrapper(N)

\* The first declared slot, in declaration order, exposed with token t.
FirstExposing(t) ==
    CHOOSE k \in DeclaredSlots :
        /\ statics[k] = t
        /\ \A j \in DeclaredSlots : statics[j] = t => KeyIndex(k) <= KeyIndex(j)

\* No later child has the type of element c.
LastOfItsType(c) ==
    \A i \in 1..Len(children) :
        (children[i].kind = "element" /\ children[i].type = c.type) =>
            children[i].key <= c.key

\* Element c is classified into slot F and nowhere else: once in F's list, or
\* as F's single value unless a later child of its type replaced it.
ClassifiedInto(c, F) ==
    LET places == PlacesOf(c, renderProps)
    IN /\ \A p \in places : p[1] = F
       /\ IF ConfigFor(F).multiple
          THEN Cardinality(places) = 1
          ELSE LastOfItsType(c) => places = {<<F, 0>>}

\* C12, as stated: the component exposes, for every declared slot N, a property
\* N holding N's identity token, and an element child whose type is the value
\* of Component.N is classified into slot N and nowhere else.
C12_Original ==
    /\ \A N \in DeclaredSlots : N \in DOMAIN statics /\ statics[N] = DeclaredToken(N)
    /\ pc = "done" =>
          \A N \in DeclaredSlots : \A i \in 1..Len(children) :
              (children[i].kind = "element" /\ children[i].type = statics[N]) =>
                  ClassifiedInto(children[i], N)

\* C12, amended: the component exposes, for every declared slot N, a property N
\* holding N's identity token, and an element child whose type is the value of
\* Component.N is classified into the first declared slot exposed with that
\* token (N itself unless an earlier slot shares it) and nowhere else.
C12_StaticTokenClassifiesIntoFirstSlot ==
    /\ \A N \in DeclaredSlots : N \in DOMAIN statics /\ statics[N] = DeclaredToken(N)
    /\ pc = "done" =>
          \A N \in DeclaredSlots : \A i \in 1..Len(children) :
              (children[i].kind = "element" /\ children[i].type = statics[N]) =>
                  ClassifiedInto(children[i], FirstExposing(statics[N]))

C12_Witness ==
    /\ pc = "done"
    /\ variant = "builder"
    /\ slotsConfig["Header"].component = Undefined
    /\ statics["Header"] = "HeaderWrapper"
    /\ Len(children) = 2
    /\ children[1].kind = "element"
    /\ children[1].type = statics["Header"]
    /\ children[2].kind = "element"
    /\ children[2].type = statics["Footer"]
    /\ ~ConfigFor("Header").multiple
    /\ renderProps["slots"]["Header"] = children[1]

\* This pass and the one before it had the same children and props.
SameChildrenAndProps ==
    /\ prev.kind = "pass"
    /\ prev.children = children
    /\ prev.props = props

\* C13: in production mode no pass emits the duplicate-children warning or the
\* missing-required-slots error, and the slots and nonSlotChildren handed to
\* the render function are those of a development pass on the same input.
C13_ProductionIsSilentAndSameInput ==
    /\ nodeEnv = "production" =>
          \A i \in 1..Len(events) : events[i].level \notin {"warn", "error"}
    /\ (/\ pc = "done"
        /\ SameChildrenAndProps
        /\ prev.pc = "done"
        /\ {prev.nodeEnv, nodeEnv} = {"development", "production"}) =>
          /\ renderProps["slots"] = prev.renderProps["slots"]
          /\ renderProps["nonSlotChildren"] = prev.renderProps["nonSlotChildren"]

C13_Witness ==
    /\ pc = "done"
    /\ nodeEnv = "production"
    /\ SameChildrenAndProps
    /\ prev.pc = "done"
    /\ prev.nodeEnv = "development"
    /\ \E i \in 1..Len(prev.events) : prev.events[i].level = "warn"
    /\ events = <<RenderEvent>>
    /\ Len(children) = 3

\* What slot s holds by this pass's children alone.
ExpectedSlotValue(s) ==
    IF ConfigFor(s).multiple THEN ArrayV(Received(s))
    ELSE IF Received(s) # <<>> THEN Last(Received(s))
    ELSE IF Truthy(ConfigFor(s).defaultContent) THEN Fragment(ConfigFor(s).defaultContent)
    ELSE NullV

\* C16: render passes are independent: whatever pass came before, the slots and
\* nonSlotChildren of a pass are those its own children determine (no list
\* accumulates, no earlier child is kept), the registry is as it was, and a
\* pass on the same input as the pass before ends the same way with the same
\* render input and diagnostics.
C16_PassesAreIndependent ==
    /\ pc = "done" =>
          /\ \A s \in DeclaredSlots : renderProps["slots"][s] = ExpectedSlotValue(s)
          /\ renderProps["nonSlotChildren"] = SelectSeq(children, Unmatched)
    /\ prev.kind = "pass" =>
          prev.registry = registryVars
    /\ (/\ pc \in {"done", "threw"}
        /\ SameChildrenAndProps
        /\ prev.nodeEnv = nodeEnv) =>
          /\ pc = prev.pc
          /\ renderProps = prev.renderProps
          /\ events = prev.events
          /\ returned = prev.returned

C16_Witness ==
    /\ pc = "done"
    /\ prev.kind = "pass"
    /\ prev.pc = "done"
    /\ ConfigFor("Header").multiple
    /\ Len(prev.renderProps["slots"]["Header"].items) = 2
    /\ Len(children) = 2
    /\ Len(renderProps["slots"]["Header"].items) = 1

WarnEvents(evs) == SelectSeq(evs, LAMBDA e : e.level = "warn")

ErrorEventsOf(evs) == SelectSeq(evs, LAMBDA e : e.level = "error")

\* The state is the end of the builder component's pass, and prev the legacy
\* component's pass on the same registry, props, children and NODE_ENV.
TwinPassesDone ==
    /\ pc = "done"
    /\ variant = "builder"
    /\ prev.kind = "pass"

\* The builder's warnings are the legacy's without those of slots configured
\* with default content.
WarningsDifferByDefaultContent ==
    WarnEvents(events) =
        SelectSeq(WarnEvents(prev.events),
                  LAMBDA e : ~Truthy(ConfigFor(e.slot).defaultContent))

WarningsFor(s) == SelectSeq(events, LAMBDA e : e.level = "warn" /\ e.slot = s)

\* C15, as stated: in development mode a matching child of a singular slot
\* that overwrites an earlier matching child is warned about, and one that
\* overwrites null or the default content is not: a singular slot that
\* receives N >= 1 children is warned about N - 1 times, with or without
\* default content, and one that receives none is never warned about.
C15_Original ==
    (nodeEnv = "development" /\ pc \notin {"idle", "classify"}) =>
        \A s \in DeclaredSlots :
            ~ConfigFor(s).multiple =>
                Len(WarningsFor(s)) =
                    IF Received(s) = <<>> THEN 0 ELSE Len(Received(s)) - 1

\* Slot b is declared after another slot with the same identity token.
SharesTokenWithEarlier(b) ==
    \E a \in DeclaredSlots : KeyIndex(a) < KeyIndex(b) /\ TokenOf(a) = TokenOf(b)

\* The first declared slot with the token of slot b.
EarliestWithToken(b) ==
    CHOOSE a \in DeclaredSlots :
        /\ TokenOf(a) = TokenOf(b)
        /\ \A k \in DeclaredSlots : TokenOf(k) = TokenOf(b) => KeyIndex(a) <= KeyIndex(k)

ChildrenOfType(t) == SelectSeq(children, LAMBDA c : c.kind = "element" /\ c.type = t)

\* The value a slot holds before any child is classified.
InitialValueOf(s) ==
    IF ConfigFor(s).multiple THEN ArrayV(<<>>)
    ELSE IF Truthy(ConfigFor(s).defaultContent) THEN Fragment(ConfigFor(s).defaultContent)
    ELSE NullV

\* C17, as stated: when slot b is declared after a slot a with the same
\* identity token, every child of that type is classified into a, b keeps its
\* initial value, and if b is required and empty every pass reports it missing
\* (by the diagnostic, which exists in development mode only).
C17_Original ==
    pc \notin {"idle", "classify"} =>
        \A b \in DeclaredSlots :
            SharesTokenWithEarlier(b) =>
                LET a == EarliestWithToken(b)
                    received == ChildrenOfType(TokenOf(b))
                IN /\ slotElements[a] =
                        IF ConfigFor(a).multiple THEN ArrayV(received)
                        ELSE IF received # <<>> THEN Last(received)
                        ELSE InitialValueOf(a)
                   /\ slotElements[b] = InitialValueOf(b)
                   /\ ( /\ pc \in {"done", "threw"}
                        /\ nodeEnv = "development"
                        /\ ConfigFor(b).isRequired
                        /\ slotElements[b] \in {NullV, ArrayV(<<>>)} )
                      => b \in ReportedMissing

====
